---- MODULE Spec2Model ----
(***************************************************************************)
(* thin_ls (thin-provisioning/thin_ls.cc): the two-bit-per-block tracker   *)
(* mapping_set, the two passes pass1 / count_exclusives and the driver     *)
(* ls_ that buffers the report in a grid and renders it at the very end.   *)
(*                                                                         *)
(* Number representation.  The checker's integers are 32 bits wide while   *)
(* the program mixes a 32-bit `unsigned` (new_size) with 64-bit block      *)
(* addresses, so sizes are kept in units of UnitBits = 2048 bits (every    *)
(* size the program produces, 10240 * 2^k mod 2^32, is a multiple of it)   *)
(* and a block address b = q * 1024 + r is the pair <<q, r>>; its two bit  *)
(* indices b*2 and b*2+1 are the pairs <<q, 2r>> and <<q, 2r+1>>, i.e. the *)
(* bit q * 2048 + offset.  All comparisons below are exact in this form.   *)
(***************************************************************************)
EXTENDS Integers, Naturals, Sequences, FiniteSets, TLC

VARIABLES md, flags, pc, it, dd, mappings, grid, out, status, hist, calls, last

vars == <<md, flags, pc, it, dd, mappings, grid, out, status, hist, calls, last>>

\* ---------------------------------------------------------------- sizes
InitialBits == 10240
UnsignedWidth == 32
UnitBits == 2 ^ 11
BlocksPerUnit == UnitBits \div 2
InitialUnits == InitialBits \div UnitBits
\* 2^32 expressed in units: arithmetic on `unsigned new_size` is modulo this
UnsignedModulus == 2 ^ (UnsignedWidth - 11)

\* ---------------------------------------------------------------- bounds
MaxEntries == 2
MaxIncs == 3

\* ------------------------------------------------------ block addresses
\* block address q * 1024 + r
Blk(q, r) == <<q, r>>
\* the bit index b * 2 + i of block b
BitOf(b, i) == <<b[1], 2 * b[2] + i>>

B1 == Blk(0, 1)
B2 == Blk(0, 2)
\* 5120: its first bit index equals the initial size 10240
BEdge == Blk(5, 0)
\* 10240: its first bit index 20480 equals the initial size doubled
BDouble == Blk(10, 0)
\* 102405: several doublings away from the initial size
BFar == Blk(100, 5)
\* 5 * 2^28 + 1: its bit indices lie beyond 5 * 2^29, the last size the
\* doubling reaches below 2^32
BHuge1 == Blk(5 * (2 ^ 18), 1)

TrackerBlocks == {B1, B2, BEdge, BDouble, BFar, BHuge1}
TreeBlocks == {B1, B2, BDouble, BHuge1}

\* ---------------------------------------------------------- mapping_set
\* size in units of UnitBits; bits = the set of bit indices that are true;
\* oob = some access was made at an index >= size; fault = the call never
\* returned ("hang") or the process died on the access ("crash")
NewMappingSet == [size |-> InitialUnits, bits |-> {}, oob |-> FALSE, fault |-> "none"]

\* bit >= size
BitGeqSize(bit, size) == bit[1] >= size
\* size < bit
SizeLtBit(size, bit) == size < bit[1] \/ (size = bit[1] /\ bit[2] > 0)

\* while (new_size < bit) new_size *= 2;   on a 32-bit unsigned.
\* new_size = 0 is a fixed point of the doubling: the loop never exits (-1).
RECURSIVE DoublingLoop(_, _)
DoublingLoop(new_size, bit) ==
    IF SizeLtBit(new_size, bit)
    THEN IF new_size = 0 THEN -1
         ELSE DoublingLoop((new_size * 2) % UnsignedModulus, bit)
    ELSE new_size

\* bits_.resize(new_size, false)
Resize(ms, new_size) ==
    [ms EXCEPT !.size = new_size,
               !.bits = {x \in ms.bits : ~BitGeqSize(x, new_size)}]

ensure_size(ms, bit) ==
    IF BitGeqSize(bit, ms.size)
    THEN LET new_size == DoublingLoop((ms.size * 2) % UnsignedModulus, bit)
         IN IF new_size < 0 THEN [ms EXCEPT !.fault = "hang"]
            ELSE Resize(ms, new_size)
    ELSE ms

\* the outcomes of bits_[bit] (read) after ensure_size; an index outside the
\* storage is undefined behaviour: any value may be read or the process dies
get_bit(ms, bit) ==
    LET m == ensure_size(ms, bit) IN
    IF m.fault # "none" THEN {[ms |-> m, val |-> FALSE]}
    ELSE IF ~BitGeqSize(bit, m.size) THEN {[ms |-> m, val |-> bit \in m.bits]}
    ELSE {[ms |-> [m EXCEPT !.oob = TRUE], val |-> v] : v \in BOOLEAN}
         \cup {[ms |-> [m EXCEPT !.oob = TRUE, !.fault = "crash"], val |-> FALSE]}

\* the outcomes of bits_[bit] = v after ensure_size
set_bit(ms, bit, v) ==
    LET m == ensure_size(ms, bit) IN
    IF m.fault # "none" THEN {m}
    ELSE IF ~BitGeqSize(bit, m.size)
         THEN {[m EXCEPT !.bits = IF v THEN @ \cup {bit} ELSE @ \ {bit}]}
    ELSE {[m EXCEPT !.oob = TRUE], [m EXCEPT !.oob = TRUE, !.fault = "crash"]}

\* mapping_set::inc: the set of trackers it may leave behind
inc(ms, b) ==
    UNION { IF g.ms.fault # "none" THEN {g.ms}
            ELSE IF g.val THEN set_bit(g.ms, BitOf(b, 1), TRUE)
            ELSE set_bit(g.ms, BitOf(b, 0), TRUE)
          : g \in get_bit(ms, BitOf(b, 0)) }

\* mapping_set::get_state: the outcomes [ms, val]; bits_ is mutable, so the
\* tracker may have grown
get_state(ms, b) ==
    UNION { IF g.ms.fault # "none" THEN {[ms |-> g.ms, val |-> "UNMAPPED"]}
            ELSE IF g.val
            THEN {[ms |-> h.ms, val |-> IF h.val THEN "SHARED" ELSE "EXCLUSIVE"]
                  : h \in get_bit(g.ms, BitOf(b, 1))}
            ELSE {[ms |-> g.ms, val |-> "UNMAPPED"]}
          : g \in get_bit(ms, BitOf(b, 0)) }

\* the state the tracker holds for b: what get_state answers from the bits
\* inside the storage (bits beyond the size are false once grown)
block_state(ms, b) ==
    IF BitOf(b, 0) \in ms.bits
    THEN IF BitOf(b, 1) \in ms.bits THEN "SHARED" ELSE "EXCLUSIVE"
    ELSE "UNMAPPED"

\* the record of the last direct call on the tracker
NoCall == [op |-> "none", b |-> B1, pre |-> NewMappingSet, val |-> "UNMAPPED"]

\* ------------------------------------------------------------ metadata
DevIds == {1, 2}
MaxMapped == 2
\* a damage notification in place of an entry (no block address has this form)
Damage == <<-1, -1>>

\* a mapping tree as walk_mapping_tree enumerates it: the physical block of
\* each leaf entry, or a damage notification (the visitor throws on it, so
\* nothing after it is ever visited and it is kept as the last element)
Trees ==
    UNION { [1..n -> TreeBlocks] : n \in 0..MaxEntries }
    \cup UNION { { Append(t, Damage) : t \in [1..n -> TreeBlocks] }
                 : n \in 0..(MaxEntries - 1) }

device_details(m) ==
    [mapped_blocks |-> m, transaction_id |-> 0, creation_time |-> 0,
     snapshotted_time |-> 0]

\* ---------------------------------------------------------------- fields
ExclusiveFields ==
    {"EXCLUSIVE_BLOCKS", "SHARED_BLOCKS", "EXCLUSIVE_SECTORS", "SHARED_SECTORS",
     "EXCLUSIVE_BYTES", "SHARED_BYTES", "EXCLUSIVE", "SHARED"}

\* pass1_needed that overlooks the *_BLOCKS fields
pass1_needed_no_blocks(fields) ==
    \E i \in 1..Len(fields) :
        fields[i] \in ExclusiveFields \ {"EXCLUSIVE_BLOCKS", "SHARED_BLOCKS"}

\* pass1_needed that also asks for the passes on MAPPED_BLOCKS
pass1_needed_mapped_too(fields) ==
    \E i \in 1..Len(fields) : fields[i] \in ExclusiveFields \cup {"MAPPED_BLOCKS"}

pass1_needed(fields) ==
    \E i \in 1..Len(fields) : fields[i] \in ExclusiveFields

\* flags::flags()
DefaultFields == <<"DEV", "MAPPED", "CREATE_TIME", "SNAP_TIME">>

FieldChoices ==
    { DefaultFields,
      <<"DEV", "MAPPED_BLOCKS">>,
      <<"DEV", "MAPPED_BLOCKS", "EXCLUSIVE_BLOCKS", "SHARED_BLOCKS">> }

\* a - b on block_address (uint64_t), kept exactly: the value is v when the
\* subtraction did not wrap and 2^64 - v when it did
sub64(a, b) ==
    IF a >= b THEN [wrapped |-> FALSE, v |-> a - b]
    ELSE [wrapped |-> TRUE, v |-> b - a]

\* the block count a field of the row is computed from; the scaling by the
\* block size and the unit formatting are done by the renderer
field_value(f, dev_id, details, exclusive) ==
    CASE f = "DEV" -> dev_id
      [] f \in {"MAPPED_BLOCKS", "MAPPED_SECTORS", "MAPPED_BYTES", "MAPPED"} ->
            details.mapped_blocks
      [] f \in {"EXCLUSIVE_BLOCKS", "EXCLUSIVE_SECTORS", "EXCLUSIVE_BYTES", "EXCLUSIVE"} ->
            exclusive
      [] f \in {"SHARED_BLOCKS", "SHARED_SECTORS", "SHARED_BYTES", "SHARED"} ->
            sub64(details.mapped_blocks, exclusive)
      [] f = "TRANSACTION" -> details.transaction_id
      [] f = "CREATE_TIME" -> details.creation_time
      [] f = "SNAP_TIME" -> details.snapshotted_time

\* print_headers: one row of field names
print_headers(fields) == <<[kind |-> "header", cells |-> fields]>>

\* ---------------------------------------------------------------- passes
\* mapping_pass1::visit over the entries of one tree: the outcomes
\* [ms, n, damage] with n the number of entries visited
RECURSIVE walk_pass1(_, _)
walk_pass1(ms, entries) ==
    IF entries = <<>> THEN {[ms |-> ms, n |-> 0, damage |-> FALSE]}
    ELSE IF Head(entries) = Damage THEN {[ms |-> ms, n |-> 0, damage |-> TRUE]}
    ELSE UNION { IF m.fault # "none" THEN {[ms |-> m, n |-> 1, damage |-> FALSE]}
                 ELSE {[r EXCEPT !.n = @ + 1] : r \in walk_pass1(m, Tail(entries))}
               : m \in inc(ms, Head(entries)) }

\* a second pass whose visitor counts the entry into the tracker before it
\* reads the state
RECURSIVE walk_pass2_counting(_, _)
walk_pass2_counting(ms, entries) ==
    IF entries = <<>> THEN {[ms |-> ms, n |-> 0, exclusives |-> 0, damage |-> FALSE]}
    ELSE IF Head(entries) = Damage
    THEN {[ms |-> ms, n |-> 0, exclusives |-> 0, damage |-> TRUE]}
    ELSE UNION { IF g.ms.fault # "none"
                 THEN {[ms |-> g.ms, n |-> 1, exclusives |-> 0, damage |-> FALSE]}
                 ELSE {[r EXCEPT !.n = @ + 1,
                                 !.exclusives = IF g.val = "EXCLUSIVE" THEN @ + 1 ELSE @]
                       : r \in walk_pass2_counting(g.ms, Tail(entries))}
               : g \in UNION {get_state(m, Head(entries)) : m \in inc(ms, Head(entries))} }

\* mapping_pass2::visit over the entries of one tree: the outcomes
\* [ms, n, exclusives, damage]
RECURSIVE walk_pass2(_, _)
walk_pass2(ms, entries) ==
    IF entries = <<>> THEN {[ms |-> ms, n |-> 0, exclusives |-> 0, damage |-> FALSE]}
    ELSE IF Head(entries) = Damage
    THEN {[ms |-> ms, n |-> 0, exclusives |-> 0, damage |-> TRUE]}
    ELSE UNION { IF g.ms.fault # "none"
                 THEN {[ms |-> g.ms, n |-> 1, exclusives |-> 0, damage |-> FALSE]}
                 ELSE {[r EXCEPT !.n = @ + 1,
                                 !.exclusives = IF g.val = "EXCLUSIVE" THEN @ + 1 ELSE @]
                       : r \in walk_pass2(g.ms, Tail(entries))}
               : g \in get_state(ms, Head(entries)) }

\* how a call that did not return normally ends the run: the exception is
\* caught in ls (message on cerr, exit code 1); a call that never returns or
\* a dead process leaves no output either
Ended(ms, damage) ==
    IF ms.fault = "hang" THEN "hung"
    ELSE IF ms.fault = "crash" THEN "crashed"
    ELSE IF damage THEN "error: metadata contains errors"
    ELSE "running"

\* the key after k in the dd_map (a std::map, ascending), 0 at end()
NextKey(map, k) ==
    IF \E j \in DOMAIN map : j > k
    THEN CHOOSE j \in DOMAIN map : j > k /\ \A i \in DOMAIN map : i > k => j <= i
    ELSE 0

\* ------------------------------------------------------------------- ls_
\* what the metadata holds for one device: its catalogued details and either
\* a root in the top-level tree with the mapping tree under it, or no root
\* (and then no tree to reach)
DeviceInputs ==
    {[details |-> device_details(m), top |-> TRUE, tree |-> t]
        : m \in 1..MaxMapped, t \in Trees}
    \cup {[details |-> device_details(m), top |-> FALSE, tree |-> <<>>]
        : m \in 1..MaxMapped}

\* the metadata the run opens read-only.  A damaged device tree ends the run
\* before anything else is read, so one such metadata stands for all.
Metadata ==
    {[devDamage |-> FALSE,
      details |-> [d \in DevIds |-> f[d].details],
      top |-> [d \in DevIds |-> f[d].top],
      trees |-> [d \in DevIds |-> f[d].tree]] : f \in [DevIds -> DeviceInputs]}
    \cup {[devDamage |-> TRUE,
           details |-> [d \in DevIds |-> device_details(1)],
           top |-> [d \in DevIds |-> TRUE],
           trees |-> [d \in DevIds |-> <<>>]]}

Init ==
    /\ md \in Metadata
    /\ flags \in [headers : BOOLEAN, fields : FieldChoices]
    /\ pc = "walk_device_tree"
    /\ it = 0
    /\ dd = <<>>
    /\ mappings = NewMappingSet
    /\ grid = <<>>
    /\ out = <<>>
    /\ status = "running"
    /\ hist = [lookups |-> 0, incs |-> 0, gets |-> 0,
               visited1 |-> [d \in DevIds |-> 0],
               visited2 |-> [d \in DevIds |-> 0],
               snap |-> NewMappingSet]
    /\ calls = <<>>
    /\ last = NoCall

\* walk_device_tree with details_extractor and fatal_details_damage, then
\* the decision whether pass 1 runs
WalkDeviceTree ==
    /\ pc = "walk_device_tree"
    /\ IF md.devDamage
       THEN /\ status' = "error: metadata contains errors"
            /\ pc' = "done"
            /\ UNCHANGED <<dd, it>>
       ELSE /\ dd' = md.details
            /\ it' = NextKey(md.details, 0)
            /\ pc' = IF pass1_needed(flags.fields) /\ NextKey(md.details, 0) # 0
                     THEN "pass1" ELSE "headers"
            /\ UNCHANGED status
    /\ UNCHANGED <<md, flags, mappings, grid, out, hist, calls, last>>

\* one iteration of the first loop of ls_: pass1(md, mappings, it->first)
Pass1 ==
    /\ pc = "pass1"
    /\ IF ~md.top[it]
       THEN /\ status' = "error: couldn't find mapping tree root"
            /\ pc' = "done"
            /\ hist' = [hist EXCEPT !.lookups = @ + 1]
            /\ UNCHANGED <<mappings, it>>
       ELSE \E r \in walk_pass1(mappings, md.trees[it]) :
            /\ mappings' = r.ms
            /\ status' = Ended(r.ms, r.damage)
            /\ IF Ended(r.ms, r.damage) # "running"
               THEN pc' = "done" /\ UNCHANGED it
               ELSE /\ it' = NextKey(dd, it)
                    /\ pc' = IF NextKey(dd, it) = 0 THEN "headers" ELSE "pass1"
            /\ hist' = [hist EXCEPT !.lookups = @ + 1,
                                    !.incs = @ + r.n,
                                    !.visited1[it] = r.n,
                                    !.snap = r.ms]
    /\ UNCHANGED <<md, flags, dd, grid, out, calls, last>>

\* print_headers writing the header line to the stream at once
PrintHeaders_streams ==
    /\ pc = "headers"
    /\ grid' = IF flags.headers THEN print_headers(flags.fields) ELSE <<>>
    /\ out' = grid'
    /\ it' = NextKey(dd, 0)
    /\ pc' = IF NextKey(dd, 0) = 0 THEN "render" ELSE "rows"
    /\ UNCHANGED <<md, flags, dd, mappings, status, hist, calls, last>>

\* if (flags.headers) print_headers(grid, flags.fields)
PrintHeaders ==
    /\ pc = "headers"
    /\ grid' = IF flags.headers THEN print_headers(flags.fields) ELSE <<>>
    /\ it' = NextKey(dd, 0)
    /\ pc' = IF NextKey(dd, 0) = 0 THEN "render" ELSE "rows"
    /\ UNCHANGED <<md, flags, dd, mappings, out, status, hist, calls, last>>

\* the row of one device, given its exclusive count
Row(dev_id, exclusive) ==
    [kind |-> "row",
     cells |-> [i \in 1..Len(flags.fields) |->
                   field_value(flags.fields[i], dev_id, dd[dev_id], exclusive)]]

\* one iteration of the second loop of ls_: count_exclusives when needed,
\* then the fields of the row and grid.new_row()
DeviceRow ==
    /\ pc = "rows"
    /\ IF ~pass1_needed(flags.fields)
       THEN /\ grid' = Append(grid, Row(it, 0))
            /\ it' = NextKey(dd, it)
            /\ pc' = IF NextKey(dd, it) = 0 THEN "render" ELSE "rows"
            /\ UNCHANGED <<mappings, status, hist>>
       ELSE IF ~md.top[it]
       THEN /\ status' = "error: couldn't find mapping tree root"
            /\ pc' = "done"
            /\ hist' = [hist EXCEPT !.lookups = @ + 1]
            /\ UNCHANGED <<mappings, it, grid>>
       ELSE \E r \in walk_pass2(mappings, md.trees[it]) :
            /\ mappings' = r.ms
            /\ status' = Ended(r.ms, r.damage)
            /\ hist' = [hist EXCEPT !.lookups = @ + 1,
                                    !.gets = @ + r.n,
                                    !.visited2[it] = r.n]
            /\ IF Ended(r.ms, r.damage) # "running"
               THEN pc' = "done" /\ UNCHANGED <<it, grid>>
               ELSE /\ grid' = Append(grid, Row(it, r.exclusives))
                    /\ it' = NextKey(dd, it)
                    /\ pc' = IF NextKey(dd, it) = 0 THEN "render" ELSE "rows"
    /\ UNCHANGED <<md, flags, dd, out, calls, last>>

\* grid.render(out), then ls returns 0
Render ==
    /\ pc = "render"
    /\ out' = grid
    /\ status' = "ok"
    /\ pc' = "done"
    /\ UNCHANGED <<md, flags, it, dd, mappings, grid, hist, calls, last>>

Next ==
    \/ WalkDeviceTree
    \/ Pass1
    \/ PrintHeaders
    \/ DeviceRow
    \/ Render

Spec == Init /\ [][Next]_vars

\* ------------------------------------------- the tracker driven directly
\* any sequence of inc and get_state calls on one mapping_set
NoRun == [devDamage |-> FALSE, details |-> <<>>, top |-> <<>>, trees |-> <<>>]

NoHist == [lookups |-> 0, incs |-> 0, gets |-> 0, visited1 |-> <<>>,
           visited2 |-> <<>>, snap |-> NewMappingSet]

TrackerInit ==
    /\ mappings = NewMappingSet
    /\ calls = [b \in TrackerBlocks |-> 0]
    /\ last = NoCall
    /\ md = NoRun
    /\ flags = [headers |-> FALSE, fields |-> <<>>]
    /\ pc = "tracker"
    /\ it = 0
    /\ dd = <<>>
    /\ grid = <<>>
    /\ out = <<>>
    /\ status = "running"
    /\ hist = NoHist

CallInc(b) ==
    /\ pc = "tracker"
    /\ mappings.fault = "none"
    /\ calls[b] < MaxIncs
    /\ \E m \in inc(mappings, b) :
          /\ mappings' = m
          /\ calls' = IF m.fault = "none" THEN [calls EXCEPT ![b] = @ + 1] ELSE calls
          /\ last' = [op |-> "inc", b |-> b, pre |-> mappings, val |-> "UNMAPPED"]
    /\ UNCHANGED <<md, flags, pc, it, dd, grid, out, status, hist>>

CallGetState(b) ==
    /\ pc = "tracker"
    /\ mappings.fault = "none"
    /\ \E g \in get_state(mappings, b) :
          /\ mappings' = g.ms
          /\ last' = [op |-> "get_state", b |-> b, pre |-> mappings, val |-> g.val]
    /\ UNCHANGED <<md, flags, pc, it, dd, grid, out, status, hist, calls>>

TrackerNext ==
    \/ \E b \in TrackerBlocks : CallInc(b)
    \/ \E b \in TrackerBlocks : CallGetState(b)

SpecTracker == TrackerInit /\ [][TrackerNext]_vars

\* ================================================================ claims
\* the devices whose mapping tree holds an entry for physical block b
Referencing(b) ==
    {d \in DevIds : \E i \in 1..Len(md.trees[d]) : md.trees[d][i] = b}

\* some requested field is an exclusive or a shared field
RequestsExclusivity ==
    \E i \in 1..Len(flags.fields) : flags.fields[i] \in ExclusiveFields

\* the report row of device d in the rendered output
RowOf(d) ==
    CHOOSE r \in {out[i] : i \in 1..Len(out)} : r.kind = "row" /\ r.cells[1] = d

\* the cell of row r under field f
CellOf(r, f) == r.cells[CHOOSE i \in 1..Len(flags.fields) : flags.fields[i] = f]

\* the leaf entries of d's mapping tree
EntriesOf(d) == SelectSeq(md.trees[d], LAMBDA e : e # Damage)

\* C1: once Pass 1 has run over every catalogued device, the state of b is
\* UNMAPPED iff no device references b, EXCLUSIVE iff exactly one device
\* does, SHARED iff two or more do (stated for the runs whose tracker
\* accesses all stayed inside the bit vector).
C1_ClassifiedByDeviceCount ==
    (RequestsExclusivity /\ pc = "headers" /\ ~mappings.oob) =>
        \A b \in TreeBlocks :
            block_state(mappings, b) =
                CASE Cardinality(Referencing(b)) = 0 -> "UNMAPPED"
                  [] Cardinality(Referencing(b)) = 1 -> "EXCLUSIVE"
                  [] OTHER -> "SHARED"

\* C2: in a completed run that requested exclusivity data, the exclusive
\* count of every device is the number of its entries whose block is
\* EXCLUSIVE in the tracker Pass 1 completed, the shared count is
\* mapped_blocks - exclusive, and exclusive + shared = mapped_blocks.
C2_ExclusivePlusShared ==
    (status = "ok" /\ RequestsExclusivity) =>
        \A d \in DOMAIN dd :
            LET r == RowOf(d)
                exclusive == CellOf(r, "EXCLUSIVE_BLOCKS")
                shared == CellOf(r, "SHARED_BLOCKS")
                mapped == CellOf(r, "MAPPED_BLOCKS")
            IN /\ exclusive = Len(SelectSeq(EntriesOf(d),
                                  LAMBDA b : block_state(hist.snap, b) = "EXCLUSIVE"))
               /\ ~shared.wrapped
               /\ shared.v = mapped - exclusive
               /\ exclusive + shared.v = mapped

\* the complete report: the header row when requested, then one row per
\* catalogued device in ascending id order, every requested field filled
CompleteReport ==
    LET h == IF flags.headers THEN 1 ELSE 0
        ids == DOMAIN dd
    IN /\ Len(out) = h + Cardinality(ids)
       /\ flags.headers => out[1] = [kind |-> "header", cells |-> flags.fields]
       /\ \A d \in ids :
             LET r == out[h + Cardinality({e \in ids : e <= d})]
             IN /\ r.kind = "row"
                /\ Len(r.cells) = Len(flags.fields)
                /\ \A i \in 1..Len(flags.fields) :
                      flags.fields[i] = "DEV" => r.cells[i] = d

\* the run met a damage notification: in the device tree, or in the mapping
\* tree of the device at which the scan stopped
DamageMet ==
    \/ md.devDamage
    \/ /\ RequestsExclusivity
       /\ mappings.fault = "none"
       /\ \E d \in DevIds :
             it = d /\ \E i \in 1..Len(md.trees[d]) : md.trees[d][i] = Damage

\* C3: a run writes either the complete report or nothing; a run that met
\* damage ends in an error and writes no header and no row.
C3_AllOrNothing ==
    /\ out # <<>> => (status = "ok" /\ CompleteReport)
    /\ status = "ok" => CompleteReport
    /\ (pc = "done" /\ DamageMet) =>
          (status = "error: metadata contains errors" /\ out = <<>>)
    /\ (pc = "done" /\ status # "ok") => out = <<>>

\* device 1 was scanned completely, then damage was met in device 2
C3_Witness ==
    /\ pc = "done"
    /\ status = "error: metadata contains errors"
    /\ ~md.devDamage
    /\ flags.headers
    /\ it = 2
    /\ hist.visited1[1] = MaxEntries
    /\ out = <<>>

\* the catalogued devices without a mapping-tree root
MissingRoots == {d \in DOMAIN dd : ~md.top[d]}

FirstMissing == CHOOSE d \in MissingRoots : \A e \in MissingRoots : d <= e

\* C4 (as stated): whenever a catalogued device has no mapping-tree root,
\* whatever fields were requested, the run ends in a failure and emits no
\* report.
C4_MissingRootAlwaysFatal ==
    (pc = "done" /\ MissingRoots # {}) => (status # "ok" /\ out = <<>>)

\* C4 (amended): when an exclusive or shared field is requested and a
\* catalogued device has no mapping-tree root, no report is emitted and the
\* run does not succeed; it ends with the missing-root failure exactly when
\* Pass 1 gets to the first such device, and otherwise ended while scanning
\* an earlier device.
C4_MissingRootFatalWhenScanning ==
    (RequestsExclusivity /\ MissingRoots # {}) =>
        /\ out = <<>>
        /\ grid = <<>>
        /\ status # "ok"
        /\ it <= FirstMissing
        /\ pc = "done" =>
              /\ status # "running"
              /\ (status = "error: couldn't find mapping tree root") <=> (it = FirstMissing)

\* device 1 was scanned, device 2 has no root: the run failed on it
C4_Witness ==
    /\ pc = "done"
    /\ RequestsExclusivity
    /\ md.top[1] /\ ~md.top[2]
    /\ hist.visited1[1] > 0
    /\ status = "error: couldn't find mapping tree root"
    /\ out = <<>>

\* C6: every emitted report row of a run that walked the trees has
\* mapped_blocks(d) equal to the number of entries visited for d (a mismatch
\* ends the run with an invariant violation instead of a report).
C6_MappedEqualsVisited ==
    (status = "ok" /\ RequestsExclusivity) =>
        \A d \in DOMAIN dd :
            /\ CellOf(RowOf(d), "MAPPED_BLOCKS") = hist.visited1[d]
            /\ CellOf(RowOf(d), "MAPPED_BLOCKS") = hist.visited2[d]

\* C7: when no exclusive or shared field is requested neither pass runs (no
\* top-level lookup, no entry visited, tracker untouched), and the
\* mapped_blocks of every row is the catalogued count, as it is when the
\* passes run.
C7_SkipPasses ==
    /\ ~RequestsExclusivity =>
          /\ hist.lookups = 0 /\ hist.incs = 0 /\ hist.gets = 0
          /\ \A d \in DevIds : hist.visited1[d] = 0 /\ hist.visited2[d] = 0
          /\ mappings = NewMappingSet
          /\ pc # "pass1"
    /\ \A i \in 1..Len(grid) : \A j \in 1..Len(flags.fields) :
          (grid[i].kind = "row" /\ flags.fields[j] \in {"MAPPED_BLOCKS", "MAPPED"}) =>
              grid[i].cells[j] = md.details[grid[i].cells[1]].mapped_blocks
    /\ status = "ok" => out = grid

\* a report of mapped-block totals only, over a non-empty tree, rendered
\* without any scan
C7_Witness ==
    /\ status = "ok"
    /\ flags.fields = <<"DEV", "MAPPED_BLOCKS">>
    /\ Len(md.trees[1]) = MaxEntries
    /\ Len(out) >= 2
    /\ hist.lookups = 0

\* a step taken while Pass 2 runs or the report waits to be rendered makes
\* no inc call and changes no block's state
Pass2StepReadsOnly ==
    pc \in {"rows", "render"} =>
        /\ hist.incs' = hist.incs
        /\ \A b \in TreeBlocks : block_state(mappings', b) = block_state(mappings, b)

\* once Pass 2 has read, Pass 1 has visited every entry of every device
Pass1BeforePass2 ==
    hist.gets > 0 =>
        /\ pc \in {"rows", "render", "done"}
        /\ \A d \in DOMAIN dd : hist.visited1[d] = Len(EntriesOf(d))

\* C9: every inc of Pass 1 precedes the first get_state of Pass 2, and from
\* the start of Pass 2 until the report is rendered no block changes state.
C9_Pass2ReadOnly == [](Pass1BeforePass2) /\ [][Pass2StepReadsOnly]_vars

\* Pass 2 has read the entries of device 1 and is about to read device 2,
\* with a block shared between them
C9_Witness ==
    /\ pc = "rows"
    /\ it = 2
    /\ hist.gets > 0
    /\ block_state(mappings, B1) = "SHARED"
    /\ block_state(mappings, B2) = "EXCLUSIVE"

\* C5: every call grows the vector so that no index at or beyond its size
\* is read or written, and growth leaves every other block's state as it was.
C5_GrowthInBounds ==
    /\ ~mappings.oob
    /\ mappings.fault = "none" =>
          /\ mappings.size >= last.pre.size
          /\ \A b \in TrackerBlocks \ {last.b} :
                block_state(mappings, b) = block_state(last.pre, b)

\* C8: the first inc(b) makes b EXCLUSIVE, the second SHARED, later ones
\* leave it SHARED; get_state and inc of other blocks never change b.
C8_ForwardOnly ==
    mappings.fault = "none" =>
        \A b \in TrackerBlocks :
            block_state(mappings, b) = CASE calls[b] = 0 -> "UNMAPPED"
                                         [] calls[b] = 1 -> "EXCLUSIVE"
                                         [] OTHER -> "SHARED"

\* C10: every inc and get_state call terminates: the doubling loop of
\* ensure_size always reaches a size covering the requested bit.
C10_Terminates == mappings.fault # "hang"

====
